---- MODULE Spec2Model ----
\* Verification model of the multi-step CopyToMemory gadget
\* (zkevm-circuits/src/evm_circuit/execution/memory_copy.rs): the trace
\* generator make_memory_copy_steps, witness assignment assign_exec_step and
\* the constraints emitted by CopyToMemoryGadget::configure.
EXTENDS Integers, Naturals, Sequences, FiniteSets, TLC

\* ------------------------------------------------------------------ bounds
\* largest copy length tried (two full rows plus one byte: three rows)
MaxLen == 143
\* largest source buffer / call data length tried
MaxBuf == 145
\* seeds of the byte pattern filling the source buffer
MaxSeed == 1
\* largest base address tried for the source
MaxSrc == 3
\* largest cell value tried for an adversarial row
MaxCell == 4

\* ------------------------------------------------------- program constants
\* const MAX_COPY_BYTES: usize = 71
MAX_COPY_BYTES == 71
\* let call_id = 1
CALL_ID == 1
\* Transaction { id: 1, .. }
TX_ID == 1
\* let mut rw_counter = 1
RW_COUNTER_START == 1
\* stack_pointer argument of both harnesses
STACK_POINTER == 1024
\* program_counter argument of both harnesses
PROGRAM_COUNTER == 0

Positions == 0 .. (MAX_COPY_BYTES - 1)

VARIABLES
  args,        \* arguments of the make_memory_copy_steps call and the tx
  pc,          \* position of the harness: "copy", "assign", "verify", "done"
               \* ("panic", "abort" after a failed assert!; "row", "row_done"
               \* in the row-level specification)
  copied,      \* loop variable of make_memory_copy_steps
  rw_counter,  \* the shared read/write counter (&mut usize)
  rws,         \* the global read/write log (Vec<Rw>)
  steps,       \* the execution steps (Vec<ExecStep>)
  rows,        \* the witness rows assigned so far, one per CopyToMemory step
  cur,         \* row under constraint evaluation (row-level specification)
  nxt,         \* the row that follows it
  verdict      \* result of evaluating the constraints of configure

vars == <<args, pc, copied, rw_counter, rws, steps, rows, cur, nxt, verdict>>

\* --------------------------------------------------------------- helpers
\* rand_bytes(n): n bytes; the pattern depends on a seed so that bytes differ
\* between addresses and zero bytes occur
rand_bytes(n, seed) ==
  [i \in 0 .. (n - 1) |-> (17 * seed + 5 * i + 1) % 256]

\* bytes_map = (buffer_addr..buffer_addr_end).zip(buffer).collect()
bytes_map_of(buffer, buffer_addr) ==
  [a \in buffer_addr .. (buffer_addr + Len(buffer) - 1) |->
      buffer[a - buffer_addr + 1]]

\* a Vec<u8> of n bytes as a sequence
BytesSeq(n, seed) == [k \in 1 .. n |-> rand_bytes(n, seed)[k - 1]]

\* ------------------------------------------------- make_memory_copy_step
\* Rw::Memory { rw_counter, is_write, call_id, memory_address, byte }
RwMemory(rwc, is_write, call_id, memory_address, byte) ==
  [rw_counter |-> rwc, is_write |-> is_write, call_id |-> call_id,
   memory_address |-> memory_address, byte |-> byte]

\* mutant: the read entry is pushed before the bound of the source is tested
CopyStepBody_ReadAlways(p, idx, acc) ==
  IF idx < p.bytes_left
  THEN LET addr == p.src_addr + idx
           in_bound == addr < p.src_addr_end
           missing == in_bound /\ addr \notin DOMAIN p.bytes_map
           pushRead == ~p.from_tx /\ ~missing
           byte == IF in_bound
                   THEN (IF missing THEN 0 ELSE p.bytes_map[addr])
                   ELSE 0
           rws1 == IF pushRead
                   THEN Append(acc.rws,
                          RwMemory(p.rw_counter + acc.rw_offset, FALSE,
                                   p.call_id, p.src_addr + idx,
                                   byte))
                   ELSE acc.rws
           off1 == IF pushRead THEN acc.rw_offset + 1 ELSE acc.rw_offset
       IN [selectors |-> [acc.selectors EXCEPT ![idx] = 1],
           rw_offset |-> off1 + 1,
           rws |-> Append(rws1,
                     RwMemory(p.rw_counter + off1, TRUE, p.call_id,
                              p.dst_addr + idx, byte)),
           panic |-> acc.panic \/ missing]
  ELSE acc

\* mutant: rw_offset is advanced for a call-data read as well
CopyStepBody_CountTxReads(p, idx, acc) ==
  IF idx < p.bytes_left
  THEN LET addr == p.src_addr + idx
           in_bound == addr < p.src_addr_end
           missing == in_bound /\ addr \notin DOMAIN p.bytes_map
           pushRead == in_bound /\ ~p.from_tx /\ ~missing
           byte == IF in_bound
                   THEN (IF missing THEN 0 ELSE p.bytes_map[addr])
                   ELSE 0
           rws1 == IF pushRead
                   THEN Append(acc.rws,
                          RwMemory(p.rw_counter + acc.rw_offset, FALSE,
                                   p.call_id, p.src_addr + idx,
                                   p.bytes_map[addr]))
                   ELSE acc.rws
           off1 == IF in_bound /\ ~missing THEN acc.rw_offset + 1 ELSE acc.rw_offset
       IN [selectors |-> [acc.selectors EXCEPT ![idx] = 1],
           rw_offset |-> off1 + 1,
           rws |-> Append(rws1,
                     RwMemory(p.rw_counter + off1, TRUE, p.call_id,
                              p.dst_addr + idx, byte)),
           panic |-> acc.panic \/ missing]
  ELSE acc

\* mutant: the write entry takes the counter of the read entry
CopyStepBody_SameCounter(p, idx, acc) ==
  IF idx < p.bytes_left
  THEN LET addr == p.src_addr + idx
           in_bound == addr < p.src_addr_end
           missing == in_bound /\ addr \notin DOMAIN p.bytes_map
           pushRead == in_bound /\ ~p.from_tx /\ ~missing
           byte == IF in_bound
                   THEN (IF missing THEN 0 ELSE p.bytes_map[addr])
                   ELSE 0
           rws1 == IF pushRead
                   THEN Append(acc.rws,
                          RwMemory(p.rw_counter + acc.rw_offset, FALSE,
                                   p.call_id, p.src_addr + idx,
                                   p.bytes_map[addr]))
                   ELSE acc.rws
           off1 == IF pushRead THEN acc.rw_offset + 1 ELSE acc.rw_offset
       IN [selectors |-> [acc.selectors EXCEPT ![idx] = 1],
           rw_offset |-> off1 + 1,
           rws |-> Append(rws1,
                     RwMemory(p.rw_counter + acc.rw_offset, TRUE, p.call_id,
                              p.dst_addr + idx, byte)),
           panic |-> acc.panic \/ missing]
  ELSE acc

\* mutant: position bytes_left itself is selected (idx <= bytes_left)
CopyStepBody_Inclusive(p, idx, acc) ==
  IF idx <= p.bytes_left
  THEN LET addr == p.src_addr + idx
           in_bound == addr < p.src_addr_end
           missing == in_bound /\ addr \notin DOMAIN p.bytes_map
           pushRead == in_bound /\ ~p.from_tx /\ ~missing
           byte == IF in_bound
                   THEN (IF missing THEN 0 ELSE p.bytes_map[addr])
                   ELSE 0
           rws1 == IF pushRead
                   THEN Append(acc.rws,
                          RwMemory(p.rw_counter + acc.rw_offset, FALSE,
                                   p.call_id, p.src_addr + idx,
                                   p.bytes_map[addr]))
                   ELSE acc.rws
           off1 == IF pushRead THEN acc.rw_offset + 1 ELSE acc.rw_offset
       IN [selectors |-> [acc.selectors EXCEPT ![idx] = 1],
           rw_offset |-> off1 + 1,
           rws |-> Append(rws1,
                     RwMemory(p.rw_counter + off1, TRUE, p.call_id,
                              p.dst_addr + idx, byte)),
           panic |-> acc.panic \/ missing]
  ELSE acc

\* mutant: the byte read at source offset idx is written at destination
\* offset idx + 1
CopyStepBody_WriteAhead(p, idx, acc) ==
  IF idx < p.bytes_left
  THEN LET addr == p.src_addr + idx
           in_bound == addr < p.src_addr_end
           missing == in_bound /\ addr \notin DOMAIN p.bytes_map
           pushRead == in_bound /\ ~p.from_tx /\ ~missing
           byte == IF in_bound
                   THEN (IF missing THEN 0 ELSE p.bytes_map[addr])
                   ELSE 0
           rws1 == IF pushRead
                   THEN Append(acc.rws,
                          RwMemory(p.rw_counter + acc.rw_offset, FALSE,
                                   p.call_id, p.src_addr + idx,
                                   p.bytes_map[addr]))
                   ELSE acc.rws
           off1 == IF pushRead THEN acc.rw_offset + 1 ELSE acc.rw_offset
       IN [selectors |-> [acc.selectors EXCEPT ![idx] = 1],
           rw_offset |-> off1 + 1,
           rws |-> Append(rws1,
                     RwMemory(p.rw_counter + off1, TRUE, p.call_id,
                              p.dst_addr + idx + 1, byte)),
           panic |-> acc.panic \/ missing]
  ELSE acc

\* one iteration of `for (idx, selector) in selectors.iter_mut().enumerate()`
\* acc = [selectors, rw_offset, rws, panic]
CopyStepBody(p, idx, acc) ==
  IF idx < p.bytes_left
  THEN LET addr == p.src_addr + idx
           in_bound == addr < p.src_addr_end
           missing == in_bound /\ addr \notin DOMAIN p.bytes_map
           pushRead == in_bound /\ ~p.from_tx /\ ~missing
           byte == IF in_bound
                   THEN (IF missing THEN 0 ELSE p.bytes_map[addr])
                   ELSE 0
           rws1 == IF pushRead
                   THEN Append(acc.rws,
                          RwMemory(p.rw_counter + acc.rw_offset, FALSE,
                                   p.call_id, p.src_addr + idx,
                                   p.bytes_map[addr]))
                   ELSE acc.rws
           off1 == IF pushRead THEN acc.rw_offset + 1 ELSE acc.rw_offset
       IN [selectors |-> [acc.selectors EXCEPT ![idx] = 1],
           rw_offset |-> off1 + 1,
           rws |-> Append(rws1,
                     RwMemory(p.rw_counter + off1, TRUE, p.call_id,
                              p.dst_addr + idx, byte)),
           panic |-> acc.panic \/ missing]
  ELSE acc

RECURSIVE CopyStepLoop(_, _, _, _)
\* iterations lo .. hi-1 of the loop, in order (the range is run as two
\* halves, one after the other, which keeps the evaluation shallow; the
\* state after the first half is bound as a value, computed once); the
\* assert! of the body ends the loop
CopyStepLoop(p, lo, hi, acc) ==
  IF lo >= hi \/ acc.panic THEN acc
  ELSE IF hi = lo + 1 THEN CopyStepBody(p, lo, acc)
  ELSE CHOOSE last \in
         {CopyStepLoop(p, mid, hi, first) :
            <<mid, first>> \in
              {<<m, CopyStepLoop(p, lo, m, acc)>> : m \in {(lo + hi) \div 2}}} :
         TRUE

\* GadgetExtraData::CopyToMemory { .. }
CopyToMemoryData(p, selectors) ==
  [tag |-> "CopyToMemory", src_addr |-> p.src_addr, dst_addr |-> p.dst_addr,
   bytes_left |-> p.bytes_left, src_addr_end |-> p.src_addr_end,
   from_tx |-> p.from_tx, selectors |-> selectors]

NoExtraData == [tag |-> "None"]

\* p = [call_id, src_addr, dst_addr, src_addr_end, bytes_left, from_tx,
\*      program_counter, stack_pointer, memory_size, rw_counter, rws,
\*      bytes_map]; returns the step, rw_offset and the log after the pushes
make_memory_copy_step(p) ==
  LET rw_idx_start == Len(p.rws)
      acc == CopyStepLoop(p, 0, MAX_COPY_BYTES,
               [selectors |-> [i \in Positions |-> 0], rw_offset |-> 0,
                rws |-> p.rws, panic |-> FALSE])
      rw_idx_end == Len(acc.rws)
  IN [step |-> [execution_state |-> "CopyToMemory",
                rw_indices |-> [k \in 1 .. (rw_idx_end - rw_idx_start) |->
                                   rw_idx_start + k - 1],
                rw_counter |-> p.rw_counter,
                program_counter |-> p.program_counter,
                stack_pointer |-> p.stack_pointer,
                memory_size |-> p.memory_size,
                extra_data |-> CopyToMemoryData(p, acc.selectors)],
      rw_offset |-> acc.rw_offset,
      rws |-> acc.rws,
      panic |-> acc.panic]

\* ------------------------------------------------ make_memory_copy_steps
buffer_addr_end_of(a) == a.buffer_addr + Len(a.buffer)

\* mutant: every row starts at the source address of the first row
StepArgs_SrcFixed(a, cp, rwc, log) ==
  [call_id |-> a.call_id,
   src_addr |-> a.src_addr,
   dst_addr |-> a.dst_addr + cp,
   src_addr_end |-> buffer_addr_end_of(a),
   bytes_left |-> a.length - cp,
   from_tx |-> a.from_tx,
   program_counter |-> a.program_counter,
   stack_pointer |-> a.stack_pointer,
   memory_size |-> a.memory_size,
   rw_counter |-> rwc,
   rws |-> log,
   bytes_map |-> bytes_map_of(a.buffer, a.buffer_addr)]

\* mutant: every row carries the length of the whole copy as bytes_left
StepArgs_LeftFixed(a, cp, rwc, log) ==
  [call_id |-> a.call_id,
   src_addr |-> a.src_addr + cp,
   dst_addr |-> a.dst_addr + cp,
   src_addr_end |-> buffer_addr_end_of(a),
   bytes_left |-> a.length,
   from_tx |-> a.from_tx,
   program_counter |-> a.program_counter,
   stack_pointer |-> a.stack_pointer,
   memory_size |-> a.memory_size,
   rw_counter |-> rwc,
   rws |-> log,
   bytes_map |-> bytes_map_of(a.buffer, a.buffer_addr)]

\* mutant: every row writes to the destination address of the first row
StepArgs_DstFixed(a, cp, rwc, log) ==
  [call_id |-> a.call_id,
   src_addr |-> a.src_addr + cp,
   dst_addr |-> a.dst_addr,
   src_addr_end |-> buffer_addr_end_of(a),
   bytes_left |-> a.length - cp,
   from_tx |-> a.from_tx,
   program_counter |-> a.program_counter,
   stack_pointer |-> a.stack_pointer,
   memory_size |-> a.memory_size,
   rw_counter |-> rwc,
   rws |-> log,
   bytes_map |-> bytes_map_of(a.buffer, a.buffer_addr)]

\* mutant: the source bound handed to a row moves with the copied count
StepArgs_EndShift(a, cp, rwc, log) ==
  [call_id |-> a.call_id,
   src_addr |-> a.src_addr + cp,
   dst_addr |-> a.dst_addr + cp,
   src_addr_end |-> buffer_addr_end_of(a) + cp,
   bytes_left |-> a.length - cp,
   from_tx |-> a.from_tx,
   program_counter |-> a.program_counter,
   stack_pointer |-> a.stack_pointer,
   memory_size |-> a.memory_size,
   rw_counter |-> rwc,
   rws |-> log,
   bytes_map |-> bytes_map_of(a.buffer, a.buffer_addr)]

\* mutant: the program counter handed to a row moves with the copied count
StepArgs_PcAdvance(a, cp, rwc, log) ==
  [call_id |-> a.call_id,
   src_addr |-> a.src_addr + cp,
   dst_addr |-> a.dst_addr + cp,
   src_addr_end |-> buffer_addr_end_of(a),
   bytes_left |-> a.length - cp,
   from_tx |-> a.from_tx,
   program_counter |-> a.program_counter + cp,
   stack_pointer |-> a.stack_pointer,
   memory_size |-> a.memory_size,
   rw_counter |-> rwc,
   rws |-> log,
   bytes_map |-> bytes_map_of(a.buffer, a.buffer_addr)]

\* the arguments the loop body hands to make_memory_copy_step
StepArgs(a, cp, rwc, log) ==
  [call_id |-> a.call_id,
   src_addr |-> a.src_addr + cp,
   dst_addr |-> a.dst_addr + cp,
   src_addr_end |-> buffer_addr_end_of(a),
   bytes_left |-> a.length - cp,
   from_tx |-> a.from_tx,
   program_counter |-> a.program_counter,
   stack_pointer |-> a.stack_pointer,
   memory_size |-> a.memory_size,
   rw_counter |-> rwc,
   rws |-> log,
   bytes_map |-> bytes_map_of(a.buffer, a.buffer_addr)]

\* mutant: the loop runs once more when copied reaches length
LoopCondition_Inclusive(cp, length) == cp <= length

\* `while copied < length`
LoopCondition(cp, length) == cp < length

\* one iteration of `while copied < length`
make_memory_copy_steps ==
  /\ pc = "copy"
  /\ LoopCondition(copied, args.length)
  /\ \E r \in {make_memory_copy_step(p) :
                 p \in {StepArgs(args, copied, rw_counter, rws)}} :
        IF r.panic
        THEN /\ pc' = "panic"
             /\ UNCHANGED <<copied, rw_counter, rws, steps>>
        ELSE /\ steps' = Append(steps, r.step)
             /\ rws' = r.rws
             /\ rw_counter' = rw_counter + r.rw_offset
             /\ copied' = copied + MAX_COPY_BYTES
             /\ pc' = "copy"
  /\ UNCHANGED <<args, rows, cur, nxt, verdict>>

\* the loop exits; the harness pushes the closing STOP step
PushStop ==
  /\ pc = "copy"
  /\ ~LoopCondition(copied, args.length)
  /\ steps' = Append(steps,
       [execution_state |-> "STOP",
        rw_indices |-> <<>>,
        rw_counter |-> rw_counter,
        program_counter |-> 0,
        stack_pointer |-> 1024,
        memory_size |-> args.memory_size,
        extra_data |-> NoExtraData])
  /\ pc' = "assign"
  /\ UNCHANGED <<args, copied, rw_counter, rws, rows, cur, nxt, verdict>>

\* ----------------------------------------------------- assign_exec_step
\* mutant: the assert! on the call data is made for every active position
AssignBody_AssertAlways(d, tx, log, rw_indices, idx, acc) ==
  LET addr == d.src_addr + idx
      selector == d.selectors[idx]
      reads == selector = 1 /\ addr < d.src_addr_end
      \* assert!(addr < tx.call_data.len())
      txAbort == selector = 1 /\ d.from_tx /\ ~(addr < Len(tx.call_data))
      \* rw_idx += 1 and then step.rw_indices[rw_idx], block.rws[..]
      rw_idx1 == IF reads /\ ~d.from_tx THEN acc.rw_idx + 1 ELSE acc.rw_idx
      rwAbort == /\ reads
                 /\ ~d.from_tx
                 /\ \/ ~(rw_idx1 < Len(rw_indices))
                    \/ ~(rw_indices[rw_idx1 + 1] < Len(log))
      byte == IF reads
              THEN IF d.from_tx
                   THEN (IF txAbort THEN 0 ELSE tx.call_data[addr + 1])
                   ELSE (IF rwAbort THEN 0
                         ELSE log[rw_indices[rw_idx1 + 1] + 1].byte)
              ELSE 0
  IN [rw_idx |-> IF selector = 1 THEN rw_idx1 + 1 ELSE rw_idx1,
      bytes |-> [acc.bytes EXCEPT ![idx] = byte],
      byte_source |-> [acc.byte_source EXCEPT ![idx] =
                         IF reads /\ ~d.from_tx /\ ~rwAbort
                         THEN rw_indices[rw_idx1 + 1] ELSE -1],
      abort |-> acc.abort \/ txAbort \/ rwAbort]

\* mutant: rw_idx is not advanced past the write entry of the position
AssignBody_NoWriteSkip(d, tx, log, rw_indices, idx, acc) ==
  LET addr == d.src_addr + idx
      selector == d.selectors[idx]
      reads == selector = 1 /\ addr < d.src_addr_end
      \* assert!(addr < tx.call_data.len())
      txAbort == reads /\ d.from_tx /\ ~(addr < Len(tx.call_data))
      \* rw_idx += 1 and then step.rw_indices[rw_idx], block.rws[..]
      rw_idx1 == IF reads /\ ~d.from_tx THEN acc.rw_idx + 1 ELSE acc.rw_idx
      rwAbort == /\ reads
                 /\ ~d.from_tx
                 /\ \/ ~(rw_idx1 < Len(rw_indices))
                    \/ ~(rw_indices[rw_idx1 + 1] < Len(log))
      byte == IF reads
              THEN IF d.from_tx
                   THEN (IF txAbort THEN 0 ELSE tx.call_data[addr + 1])
                   ELSE (IF rwAbort THEN 0
                         ELSE log[rw_indices[rw_idx1 + 1] + 1].byte)
              ELSE 0
  IN [rw_idx |-> rw_idx1,
      bytes |-> [acc.bytes EXCEPT ![idx] = byte],
      byte_source |-> [acc.byte_source EXCEPT ![idx] =
                         IF reads /\ ~d.from_tx /\ ~rwAbort
                         THEN rw_indices[rw_idx1 + 1] ELSE -1],
      abort |-> acc.abort \/ txAbort \/ rwAbort]

\* one iteration of `for (idx, selector) in selectors.iter().enumerate()`
\* d = extra_data, tx = [id, call_data], log = block.rws,
\* rw_indices = step.rw_indices, acc = [rw_idx, bytes, byte_source, abort];
\* byte_source[idx] is the index in block.rws of the entry whose value became
\* bytes[idx] (-1 when none was consulted)
AssignBody(d, tx, log, rw_indices, idx, acc) ==
  LET addr == d.src_addr + idx
      selector == d.selectors[idx]
      reads == selector = 1 /\ addr < d.src_addr_end
      \* assert!(addr < tx.call_data.len())
      txAbort == reads /\ d.from_tx /\ ~(addr < Len(tx.call_data))
      \* rw_idx += 1 and then step.rw_indices[rw_idx], block.rws[..]
      rw_idx1 == IF reads /\ ~d.from_tx THEN acc.rw_idx + 1 ELSE acc.rw_idx
      rwAbort == /\ reads
                 /\ ~d.from_tx
                 /\ \/ ~(rw_idx1 < Len(rw_indices))
                    \/ ~(rw_indices[rw_idx1 + 1] < Len(log))
      byte == IF reads
              THEN IF d.from_tx
                   THEN (IF txAbort THEN 0 ELSE tx.call_data[addr + 1])
                   ELSE (IF rwAbort THEN 0
                         ELSE log[rw_indices[rw_idx1 + 1] + 1].byte)
              ELSE 0
  IN [rw_idx |-> IF selector = 1 THEN rw_idx1 + 1 ELSE rw_idx1,
      bytes |-> [acc.bytes EXCEPT ![idx] = byte],
      byte_source |-> [acc.byte_source EXCEPT ![idx] =
                         IF reads /\ ~d.from_tx /\ ~rwAbort
                         THEN rw_indices[rw_idx1 + 1] ELSE -1],
      abort |-> acc.abort \/ txAbort \/ rwAbort]

RECURSIVE AssignLoop(_, _, _, _, _, _, _)
\* iterations lo .. hi-1 of the loop, in order; a failed assert! or an index
\* out of range ends the loop
AssignLoop(d, tx, log, rw_indices, lo, hi, acc) ==
  IF lo >= hi \/ acc.abort THEN acc
  ELSE IF hi = lo + 1 THEN AssignBody(d, tx, log, rw_indices, lo, acc)
  ELSE LET mid == (lo + hi) \div 2
           first == AssignLoop(d, tx, log, rw_indices, lo, mid, acc)
       IN AssignLoop(d, tx, log, rw_indices, mid, hi, first)

RECURSIVE SumRange(_, _, _)
\* the sum of f[lo .. hi-1]
SumRange(f, lo, hi) ==
  IF lo >= hi THEN 0
  ELSE IF hi = lo + 1 THEN f[lo]
  ELSE LET mid == (lo + hi) \div 2
       IN SumRange(f, lo, mid) + SumRange(f, mid, hi)

\* selectors.iter().fold(0, |acc, s| acc + s): the sum of f[0 .. n-1]
SumTo(f, n) == SumRange(f, 0, n)

\* ComparisonGadget::assign / expr: (lt, eq) of lhs against rhs
ComparisonGadget(lhs, rhs) ==
  [lt |-> IF lhs < rhs THEN 1 ELSE 0, eq |-> IF lhs = rhs THEN 1 ELSE 0]

\* the witness row written by assign_exec_step for one CopyToMemory step
assign_exec_step(log, tx, step) ==
  LET d == step.extra_data
      acc == AssignLoop(d, tx, log, step.rw_indices, 0, MAX_COPY_BYTES,
               [rw_idx |-> 0, bytes |-> [i \in Positions |-> 0],
                byte_source |-> [i \in Positions |-> -1],
                abort |-> FALSE])
      num_bytes_copied == SumTo(d.selectors, MAX_COPY_BYTES)
      cmp == ComparisonGadget(num_bytes_copied, d.bytes_left)
  IN [abort |-> acc.abort,
      row |-> [execution_state |-> step.execution_state,
               rw_counter |-> step.rw_counter,
               program_counter |-> step.program_counter,
               stack_pointer |-> step.stack_pointer,
               memory_size |-> step.memory_size,
               call_id |-> CALL_ID,
               src_addr |-> d.src_addr,
               dst_addr |-> d.dst_addr,
               bytes_left |-> d.bytes_left,
               src_addr_end |-> d.src_addr_end,
               from_tx |-> IF d.from_tx THEN 1 ELSE 0,
               tx_id |-> tx.id,
               bytes |-> acc.bytes,
               byte_source |-> acc.byte_source,
               selectors |-> d.selectors,
               lt |-> cmp.lt,
               eq |-> cmp.eq]]

\* the transaction of the block built by the harness
TxOf(a) == [id |-> a.tx_id, call_data |-> a.call_data]

\* witness assignment of the next CopyToMemory step of the block
AssignExecStep ==
  /\ pc = "assign"
  /\ Len(rows) < Len(steps)
  /\ steps[Len(rows) + 1].execution_state = "CopyToMemory"
  /\ LET r == assign_exec_step(rws, TxOf(args), steps[Len(rows) + 1])
     IN IF r.abort
        THEN pc' = "abort" /\ rows' = rows
        ELSE pc' = "assign" /\ rows' = Append(rows, r.row)
  /\ UNCHANGED <<args, copied, rw_counter, rws, steps, cur, nxt, verdict>>

\* the closing STOP step is assigned by its own gadget: only the step state
\* is shared with this gadget
StopRow(step) ==
  [execution_state |-> step.execution_state,
   rw_counter |-> step.rw_counter,
   program_counter |-> step.program_counter,
   stack_pointer |-> step.stack_pointer,
   memory_size |-> step.memory_size,
   call_id |-> CALL_ID]

AssignStop ==
  /\ pc = "assign"
  /\ Len(rows) < Len(steps)
  /\ steps[Len(rows) + 1].execution_state = "STOP"
  /\ rows' = Append(rows, StopRow(steps[Len(rows) + 1]))
  /\ pc' = "verify"
  /\ UNCHANGED <<args, copied, rw_counter, rws, steps, cur, nxt, verdict>>

\* ------------------------------------------- CopyToMemoryGadget::configure
\* BufferReaderGadget: per-position flags and bytes of a witness row r
read_flag(r, i) ==
  IF r.selectors[i] = 1 /\ r.src_addr + i < r.src_addr_end THEN 1 ELSE 0

has_data(r, i) == r.selectors[i]

byte(r, i) == r.bytes[i]

num_bytes(r) == SumTo(r.selectors, MAX_COPY_BYTES)

\* BufferReaderGadget constraints: selectors are booleans forming a prefix,
\* and byte(i) = 0 wherever read_flag(i) = 0
BufferReaderConstraints(r) ==
  /\ \A i \in Positions : r.selectors[i] \in {0, 1}
  /\ \A i \in Positions :
       (i + 1 \in Positions /\ r.selectors[i] = 0) => r.selectors[i + 1] = 0
  /\ \A i \in Positions : read_flag(r, i) = 0 => byte(r, i) = 0

\* a lookup into the rw table (table = "rw") or the tx table (table = "tx")
Lookup(table, counter, is_write, id, address, value) ==
  [table |-> table, rw_counter |-> counter, is_write |-> is_write,
   id |-> id, address |-> address, byte |-> value]

\* mutant: the memory read is not conditioned on the source being memory
MemoryReadCondition_AnySource(r, i) == read_flag(r, i)

\* condition of cb.memory_lookup(0, src_addr + i, byte(i))
MemoryReadCondition(r, i) == (1 - r.from_tx) * read_flag(r, i)

\* condition of cb.tx_context_lookup(tx_id, CallData, src_addr + i, byte(i))
TxLookupCondition(r, i) == r.from_tx * read_flag(r, i)

\* condition of cb.memory_lookup(1, dst_addr + i, byte(i))
MemoryWriteCondition(r, i) == has_data(r, i)

\* the lookups of iteration i of `for i in 0..MAX_COPY_BYTES`, emitted when
\* the rw_counter_offset of the builder is off
PositionLookups(r, i, off) ==
  LET rd == IF MemoryReadCondition(r, i) = 1
            THEN <<Lookup("rw", r.rw_counter + off, FALSE, r.call_id,
                          r.src_addr + i, byte(r, i))>>
            ELSE <<>>
      tx == IF TxLookupCondition(r, i) = 1
            THEN <<Lookup("tx", 0, FALSE, r.tx_id, r.src_addr + i,
                          byte(r, i))>>
            ELSE <<>>
      wr == IF MemoryWriteCondition(r, i) = 1
            THEN <<Lookup("rw", r.rw_counter + off + MemoryReadCondition(r, i),
                          TRUE, r.call_id, r.dst_addr + i, byte(r, i))>>
            ELSE <<>>
  IN rd \o tx \o wr

\* what iteration i adds to cb.rw_counter_offset(): one per rw lookup
PositionRwOffset(r, i) == MemoryReadCondition(r, i) + MemoryWriteCondition(r, i)

RECURSIVE RwOffsetRange(_, _, _)
\* what iterations lo .. hi-1 add to cb.rw_counter_offset()
RwOffsetRange(r, lo, hi) ==
  IF lo >= hi THEN 0
  ELSE IF hi = lo + 1 THEN PositionRwOffset(r, lo)
  ELSE LET mid == (lo + hi) \div 2
       IN RwOffsetRange(r, lo, mid) + RwOffsetRange(r, mid, hi)

RECURSIVE LookupsRange(_, _, _, _)
\* the lookups of iterations lo .. hi-1, in order, when the
\* rw_counter_offset of the builder is off before iteration lo
LookupsRange(r, lo, hi, off) ==
  IF lo >= hi THEN <<>>
  ELSE IF hi = lo + 1 THEN PositionLookups(r, lo, off)
  ELSE LET mid == (lo + hi) \div 2
       IN LookupsRange(r, lo, mid, off)
            \o LookupsRange(r, mid, hi, off + RwOffsetRange(r, lo, mid))

\* all lookups of a row, in the order configure emits them
Lookups(r) == LookupsRange(r, 0, MAX_COPY_BYTES, 0)

\* cb.rw_counter_offset() after the loop
rw_counter_offset(r) == RwOffsetRange(r, 0, MAX_COPY_BYTES)

\* a lookup holds when its tuple is in the table it addresses
LookupHolds(l, log, tx) ==
  IF l.table = "rw"
  THEN \E k \in 1 .. Len(log) :
         log[k] = RwMemory(l.rw_counter, l.is_write, l.id, l.address, l.byte)
  ELSE /\ l.id = tx.id
       /\ l.address < Len(tx.call_data)
       /\ tx.call_data[l.address + 1] = l.byte

\* let copied_size = buffer_reader.num_bytes()
copied_size(r) == num_bytes(r)

\* let (lt, finished) = finish_gadget.expr(): the cells of the comparison
\* gadget are constrained to the comparison of copied_size with bytes_left
ComparisonConstraints(r) ==
  /\ r.lt = ComparisonGadget(copied_size(r), r.bytes_left).lt
  /\ r.eq = ComparisonGadget(copied_size(r), r.bytes_left).eq

finished(r) == r.eq

\* cb.add_constraint("Constrain num_bytes <= bytes_left", lt * finished)
NumBytesConstraint(r) == r.lt * finished(r) = 0

\* mutant: the next step is constrained whether or not the row is finished
NextStepCondition_Always(r) == 1

\* cb.constrain_next_step(CopyToMemory, Some(1 - finished), ..)
NextStepCondition(r) == 1 - finished(r)

NextStepConstraints(r, n) ==
  \/ NextStepCondition(r) = 0
  \/ /\ n.execution_state = "CopyToMemory"
     /\ n.src_addr = r.src_addr + copied_size(r)
     /\ n.dst_addr = r.dst_addr + copied_size(r)
     /\ n.bytes_left + copied_size(r) = r.bytes_left
     /\ n.src_addr_end = r.src_addr_end
     /\ n.from_tx = r.from_tx
     /\ n.tx_id = r.tx_id

\* StepStateTransition { rw_counter: Delta(cb.rw_counter_offset()), .. }
StepStateTransition(r, n) ==
  /\ n.rw_counter = r.rw_counter + rw_counter_offset(r)
  /\ n.program_counter = r.program_counter
  /\ n.stack_pointer = r.stack_pointer
  /\ n.memory_size = r.memory_size
  /\ n.call_id = r.call_id

\* all constraints of one CopyToMemory row r followed by row n
RowConstraints(r, n, log, tx) ==
  /\ r.from_tx \in {0, 1}
  /\ BufferReaderConstraints(r)
  /\ LET ls == Lookups(r)
     IN \A k \in 1 .. Len(ls) : LookupHolds(ls[k], log, tx)
  /\ ComparisonConstraints(r)
  /\ NumBytesConstraint(r)
  /\ NextStepConstraints(r, n)
  /\ StepStateTransition(r, n)

\* run_test_circuit_incomplete_fixed_table(block): every CopyToMemory row of
\* the block satisfies the constraints of the gadget
Verify ==
  /\ pc = "verify"
  /\ verdict' =
       [ok |-> \A k \in 1 .. (Len(rows) - 1) :
                 RowConstraints(rows[k], rows[k + 1], rws, TxOf(args))]
  /\ pc' = "done"
  /\ UNCHANGED <<args, copied, rw_counter, rws, steps, rows, cur, nxt>>

\* ------------------------------------------------------------ harnesses
memory_size_of(dst_addr, length) == (dst_addr + length + 31) \div 32

\* test_ok_from_memory(src_addr, dst_addr, src_addr_end, length)
test_ok_from_memory(src_addr, dst_addr, src_addr_end, length, seed) ==
  [call_id |-> CALL_ID,
   buffer |-> BytesSeq(src_addr_end - src_addr, seed),
   buffer_addr |-> src_addr,
   src_addr |-> src_addr,
   dst_addr |-> dst_addr,
   length |-> length,
   from_tx |-> FALSE,
   program_counter |-> PROGRAM_COUNTER,
   stack_pointer |-> STACK_POINTER,
   memory_size |-> memory_size_of(dst_addr, length),
   tx_id |-> TX_ID,
   call_data |-> <<>>]

\* test_ok_from_tx(calldata_length, src_addr, dst_addr, length)
test_ok_from_tx(calldata_length, src_addr, dst_addr, length, seed) ==
  [call_id |-> CALL_ID,
   buffer |-> BytesSeq(calldata_length, seed),
   buffer_addr |-> 0,
   src_addr |-> src_addr,
   dst_addr |-> dst_addr,
   length |-> length,
   from_tx |-> TRUE,
   program_counter |-> PROGRAM_COUNTER,
   stack_pointer |-> STACK_POINTER,
   memory_size |-> memory_size_of(dst_addr, length),
   tx_id |-> TX_ID,
   call_data |-> BytesSeq(calldata_length, seed)]

\* the copy lengths tried: the lengths of the tests, the row boundaries
Lengths ==
  {0, 1, 5, 45, MAX_COPY_BYTES - 1, MAX_COPY_BYTES, MAX_COPY_BYTES + 1, 80,
   2 * MAX_COPY_BYTES, MaxLen}
\* the buffer lengths tried
BufLens == {0, 2, 32, MAX_COPY_BYTES + 2, 96, MaxBuf}
SrcAddrs == {0, MaxSrc}
\* destinations: overlapping the source range, and disjoint from it
DstAddrs == {0, 1, 2 * MaxBuf + MaxSrc + 10}
Seeds == 0 .. MaxSeed

NoRow == [tag |-> "None"]

Init ==
  /\ \E src_addr \in SrcAddrs, dst_addr \in DstAddrs, n \in BufLens,
        length \in Lengths, seed \in Seeds :
       \/ args = test_ok_from_memory(src_addr, dst_addr, src_addr + n,
                                     length, seed)
       \/ args = test_ok_from_tx(n, src_addr, dst_addr, length, seed)
  /\ pc = "copy"
  /\ copied = 0
  /\ rw_counter = RW_COUNTER_START
  /\ rws = <<>>
  /\ steps = <<>>
  /\ rows = <<>>
  /\ cur = NoRow
  /\ nxt = NoRow
  /\ verdict = NoRow

Next ==
  \/ make_memory_copy_steps
  \/ PushStop
  \/ AssignExecStep
  \/ AssignStop
  \/ Verify

Spec == Init /\ [][Next]_vars

\* --------------------------------------------- row-level specification
\* A prover may put any values into the cells of a row and of its successor:
\* the constraints of configure decide what is accepted.  The selectors form
\* a prefix of n ones and the comparison cells are what the comparison
\* gadget forces them to be.
WitnessRow(n, bytes_left, src_addr, dst_addr, src_addr_end, from_tx, tx_id) ==
  LET selectors == [i \in Positions |-> IF i < n THEN 1 ELSE 0]
      cmp == ComparisonGadget(n, bytes_left)
  IN [execution_state |-> "CopyToMemory",
      src_addr |-> src_addr,
      dst_addr |-> dst_addr,
      bytes_left |-> bytes_left,
      src_addr_end |-> src_addr_end,
      from_tx |-> from_tx,
      tx_id |-> tx_id,
      bytes |-> [i \in Positions |-> 0],
      selectors |-> selectors,
      lt |-> cmp.lt,
      eq |-> cmp.eq]

\* the cells of the following row that the next-step constraints query
NextCells(st, src, dst, left, src_end, from_tx, tx_id) ==
  [execution_state |-> st,
   src_addr |-> src,
   dst_addr |-> dst,
   bytes_left |-> left,
   src_addr_end |-> src_end,
   from_tx |-> from_tx,
   tx_id |-> tx_id]

\* the value a cell of the next row must have (0 when none exists in the
\* naturals) and a value one off
Near(v) == IF v < 0 THEN {0, 1} ELSE {v, v + 1}

InitRow ==
  /\ \E n \in 0 .. MaxCell, bytes_left \in 0 .. MaxCell,
        src_addr_end \in {0, 2}, from_tx \in {0, 1} :
       /\ cur = WitnessRow(n, bytes_left, 0, 1, src_addr_end, from_tx, TX_ID)
       /\ \E st \in {"CopyToMemory", "STOP"},
             s \in Near(n), d \in Near(1 + n), b \in Near(bytes_left - n),
             e \in Near(src_addr_end), f \in {0, 1}, t \in Near(TX_ID) :
            nxt = NextCells(st, s, d, b, e, f, t)
  /\ verdict = NoRow
  /\ pc = "row"
  /\ args = NoRow
  /\ copied = 0
  /\ rw_counter = RW_COUNTER_START
  /\ rws = <<>>
  /\ steps = <<>>
  /\ rows = <<>>

\* evaluation of the constraints of configure that involve no table
VerifyRow ==
  /\ pc = "row"
  /\ verdict' = [buffer_reader |-> BufferReaderConstraints(cur),
                 comparison |-> ComparisonConstraints(cur),
                 num_bytes |-> NumBytesConstraint(cur),
                 next_step |-> NextStepConstraints(cur, nxt)]
  /\ pc' = "row_done"
  /\ UNCHANGED <<args, copied, rw_counter, rws, steps, rows, cur, nxt>>

NextRow == VerifyRow

RowSpec == InitRow /\ [][NextRow]_vars

\* the harness asserts that the circuit accepts the block
TestOk == pc = "done" => verdict.ok
NoAbort == pc \notin {"panic", "abort"}

\* the scheduling of the harness is sequential: every enabled step is taken
LiveSpec == Spec /\ WF_vars(make_memory_copy_steps) /\ WF_vars(PushStop)

\* ------------------------------------------------------------- properties
IsCopy(st) == st.execution_state = "CopyToMemory"

\* number of active positions of a generated step
StepCopied(st) == SumTo(st.extra_data.selectors, MAX_COPY_BYTES)

\* the finished signal of a generated step: copied_size == bytes_left
StepFinished(st) == StepCopied(st) = st.extra_data.bytes_left

\* the rows of the chain: the CopyToMemory steps
ChainRows == {k \in 1 .. Len(steps) : IsCopy(steps[k])}

\* C1: every unfinished CopyToMemory row of a chain built by
\* make_memory_copy_steps is immediately followed by a CopyToMemory row with
\* next.src_addr = src_addr + copied_size, next.dst_addr = dst_addr +
\* copied_size and next.bytes_left + copied_size = bytes_left; the assigned
\* rows satisfy the next-step constraints of configure.
C1_Chaining ==
  /\ \A k \in ChainRows :
       (~StepFinished(steps[k]) /\ (k < Len(steps) \/ pc # "copy")) =>
         /\ k < Len(steps)
         /\ IsCopy(steps[k + 1])
         /\ LET d == steps[k].extra_data
                e == steps[k + 1].extra_data
                c == StepCopied(steps[k])
            IN /\ e.src_addr = d.src_addr + c
               /\ e.dst_addr = d.dst_addr + c
               /\ e.bytes_left + c = d.bytes_left
  /\ \A k \in 1 .. (Len(rows) - 1) : NextStepConstraints(rows[k], rows[k + 1])

C1_Witness ==
  /\ pc = "done"
  /\ \E k \in ChainRows :
       /\ ~StepFinished(steps[k])
       /\ k < Len(steps)
       /\ IsCopy(steps[k + 1])
       /\ steps[k + 1].extra_data.src_addr =
            steps[k].extra_data.src_addr + MAX_COPY_BYTES

CeilDiv(a, b) == (a + b - 1) \div b

RECURSIVE SumCopied(_)
SumCopied(n) ==
  IF n = 0 THEN 0
  ELSE SumCopied(n - 1) + (IF IsCopy(steps[n]) THEN StepCopied(steps[n]) ELSE 0)

\* C2: for every length L, 0 and the multiples of MAX_COPY_BYTES included,
\* the finished chain has ceil(L / MAX_COPY_BYTES) rows, the copied sizes sum
\* to L, bytes_left strictly decreases from row to row and the last row has
\* bytes_left - copied_size = 0.
C2_RowCount ==
  /\ \A k \in ChainRows :
       (k < Len(steps) /\ IsCopy(steps[k + 1])) =>
         steps[k + 1].extra_data.bytes_left < steps[k].extra_data.bytes_left
  /\ pc \notin {"copy", "panic"} =>
       /\ Cardinality(ChainRows) = CeilDiv(args.length, MAX_COPY_BYTES)
       /\ SumCopied(Len(steps)) = args.length
       /\ \A k \in ChainRows :
            (k = Len(steps) \/ ~IsCopy(steps[k + 1])) =>
              steps[k].extra_data.bytes_left - StepCopied(steps[k]) = 0

C2_Witness ==
  /\ pc = "done"
  /\ args.length = 2 * MAX_COPY_BYTES
  /\ Cardinality(ChainRows) = 2
  /\ steps[2].extra_data.bytes_left = MAX_COPY_BYTES

\* the chain is complete, not empty, finished on its last row only
FinishedExactlyOnLast ==
  /\ pc \notin {"copy", "panic"}
  /\ ChainRows # {}
  /\ \A k \in ChainRows :
       StepFinished(steps[k]) <=> (k = Len(steps) \/ ~IsCopy(steps[k + 1]))

\* C3: for a copy of length L >= 1 the construction of the chain terminates,
\* the finished signal is true on the last row and false on every earlier
\* row: a finished row is eventually reached and the chain ends there.
C3_FinishedEventually ==
  /\ [](\A k \in ChainRows :
          (k < Len(steps) /\ IsCopy(steps[k + 1])) => ~StepFinished(steps[k]))
  /\ (pc = "copy" /\ args.length >= 1) ~> FinishedExactlyOnLast

C3_Witness ==
  /\ pc = "done"
  /\ Cardinality(ChainRows) = 3
  /\ StepFinished(steps[3])
  /\ ~StepFinished(steps[1])
  /\ ~StepFinished(steps[2])

\* C4: when a row is finished the next-step constraints (the next row is
\* CopyToMemory, the six equalities) are not enforced: whatever the execution
\* state and the cells of the next row, they are satisfied.
C4_FinishedUnconstrained ==
  (pc = "row_done" /\ finished(cur) = 1) => verdict.next_step

C4_Witness ==
  /\ pc = "row_done"
  /\ finished(cur) = 1
  /\ nxt.execution_state = "STOP"
  /\ nxt.src_addr # cur.src_addr + copied_size(cur)
  /\ nxt.dst_addr # cur.dst_addr + copied_size(cur)
  /\ nxt.bytes_left + copied_size(cur) # cur.bytes_left
  /\ nxt.src_addr_end # cur.src_addr_end
  /\ nxt.from_tx # cur.from_tx
  /\ nxt.tx_id # cur.tx_id
  /\ verdict.next_step
  /\ verdict.num_bytes
  /\ verdict.comparison
  /\ verdict.buffer_reader

\* ---------------------------------------------------------------------
\* the entries of the log that step st pushed, in emission order
Slice(st) == [j \in 1 .. Len(st.rw_indices) |-> rws[st.rw_indices[j] + 1]]

\* the active positions of a generated step at or past the source bound
OutOfBound(d) ==
  {i \in Positions : d.selectors[i] = 1 /\ d.src_addr + i >= d.src_addr_end}

\* the active positions of a generated step before the source bound
InBound(d) ==
  {i \in Positions : d.selectors[i] = 1 /\ d.src_addr + i < d.src_addr_end}

Active(d) == {i \in Positions : d.selectors[i] = 1}

SeqRange(q) == {q[j] : j \in 1 .. Len(q)}

\* C5: for every active position i with src_addr + i >= src_addr_end, from
\* memory and from call data alike: the byte of the position is 0, no read
\* entry is pushed to the log and no source lookup is emitted for it, and the
\* write to dst_addr + i is emitted with value 0.
C5_ZeroFill ==
  /\ \A k \in ChainRows :
       LET d == steps[k].extra_data
           sl == SeqRange(Slice(steps[k]))
       IN \A i \in OutOfBound(d) :
            /\ ~\E e \in sl :
                  ~e.is_write /\ e.memory_address = d.src_addr + i
            /\ RwMemory(steps[k].rw_counter + Cardinality(InBound(d))
                          * (IF d.from_tx THEN 0 ELSE 1)
                          + Cardinality({j \in Active(d) : j < i}),
                        TRUE, CALL_ID, d.dst_addr + i, 0) \in sl
  /\ \A k \in 1 .. Len(rows) :
       IsCopy(rows[k]) =>
         LET r == rows[k]
             ls == SeqRange(Lookups(r))
         IN \A i \in OutOfBound(r) :
              /\ byte(r, i) = 0
              /\ ~\E l \in ls :
                    /\ l.address = r.src_addr + i
                    /\ (l.table = "tx" \/ ~l.is_write)
              /\ \E l \in ls :
                    /\ l.table = "rw"
                    /\ l.is_write
                    /\ l.address = r.dst_addr + i
                    /\ l.byte = 0

\* a call-data row whose source starts past the end of the call data: only
\* writes of 0
C5_Witness ==
  /\ pc = "done"
  /\ args.from_tx
  /\ args.src_addr > Len(args.call_data)
  /\ Len(args.call_data) > 0
  /\ args.length > 1
  /\ OutOfBound(rows[1]) = Active(rows[1])
  /\ \A l \in SeqRange(Lookups(rows[1])) :
       l.table = "rw" /\ l.is_write /\ l.byte = 0
  /\ \A e \in SeqRange(Slice(steps[1])) : e.is_write /\ e.byte = 0

\* the rw lookups of a row, as log entries, in the order of emission
RwLookups(r) ==
  LET rw == SelectSeq(Lookups(r), LAMBDA l : l.table = "rw")
  IN [j \in 1 .. Len(rw) |->
        RwMemory(rw[j].rw_counter, rw[j].is_write, rw[j].id, rw[j].address,
                 rw[j].byte)]

\* C6: for every position i of a row, a memory read at src_addr + i is
\* emitted iff from_tx = 0 and read_flag(i), a call-data lookup
\* (tx_id, src_addr + i) iff from_tx = 1 and read_flag(i), a memory write at
\* dst_addr + i iff has_data(i); no position has both kinds of source read, a
\* call-data row has no memory read, an inactive position has no lookup; the
\* rw lookups of the row are the entries the generator pushed for it.
C6_Lookups ==
  \A k \in 1 .. Len(rows) :
    IsCopy(rows[k]) =>
      LET r == rows[k]
          ls == Lookups(r)
          reads == SelectSeq(ls, LAMBDA l : l.table = "rw" /\ ~l.is_write)
          txs == SelectSeq(ls, LAMBDA l : l.table = "tx")
          writes == SelectSeq(ls, LAMBDA l : l.table = "rw" /\ l.is_write)
          readAt == {reads[j].address : j \in 1 .. Len(reads)}
          txAt == {txs[j].address : j \in 1 .. Len(txs)}
          writeAt == {writes[j].address : j \in 1 .. Len(writes)}
      IN /\ readAt = {r.src_addr + i : i \in
                        {j \in Positions : r.from_tx = 0 /\ read_flag(r, j) = 1}}
         /\ txAt = {r.src_addr + i : i \in
                        {j \in Positions : r.from_tx = 1 /\ read_flag(r, j) = 1}}
         /\ writeAt = {r.dst_addr + i : i \in
                        {j \in Positions : has_data(r, j) = 1}}
         /\ Cardinality(readAt) = Len(reads)
         /\ Cardinality(txAt) = Len(txs)
         /\ Cardinality(writeAt) = Len(writes)
         /\ \A j \in 1 .. Len(txs) : txs[j].id = r.tx_id
         /\ readAt = {} \/ txAt = {}
         /\ r.from_tx = 1 => readAt = {}
         /\ RwLookups(r) = Slice(steps[k])

\* a call-data row with in-bound, out-of-bound and inactive positions
C6_Witness ==
  /\ pc = "done"
  /\ args.from_tx
  /\ IsCopy(rows[1])
  /\ InBound(rows[1]) # {}
  /\ OutOfBound(rows[1]) # {}
  /\ Active(rows[1]) # Positions
  /\ \E l \in SeqRange(Lookups(rows[1])) : l.table = "tx"
  /\ \A l \in SeqRange(Lookups(rows[1])) : l.table = "rw" => l.is_write

\* C7 as stated: the counter advances across a row by the number of in-bound
\* active source reads plus the number of active writes, for a memory source
\* and a call-data source alike.
C7_Original ==
  \A k \in ChainRows :
    k < Len(steps) =>
      steps[k + 1].rw_counter - steps[k].rw_counter =
        Cardinality(InBound(steps[k].extra_data))
          + Cardinality(Active(steps[k].extra_data))

\* C7 (amended): the counter advances across a row by the number of entries
\* of the read/write log the row asserts: the in-bound active reads when the
\* source is memory, none when it is call data, plus the active writes.
C7_CounterAdvance ==
  /\ \A k \in ChainRows :
       k < Len(steps) =>
         /\ steps[k + 1].rw_counter - steps[k].rw_counter =
              (IF steps[k].extra_data.from_tx THEN 0
               ELSE Cardinality(InBound(steps[k].extra_data)))
                + Cardinality(Active(steps[k].extra_data))
         /\ steps[k + 1].rw_counter - steps[k].rw_counter =
              Len(steps[k].rw_indices)
  /\ \A k \in 1 .. (Len(rows) - 1) :
       rows[k + 1].rw_counter - rows[k].rw_counter = rw_counter_offset(rows[k])

C7_Witness ==
  /\ pc = "done"
  /\ args.from_tx
  /\ Cardinality(ChainRows) = 2
  /\ InBound(steps[1].extra_data) = Positions
  /\ steps[2].rw_counter - steps[1].rw_counter = MAX_COPY_BYTES
  /\ rw_counter_offset(rows[1]) = MAX_COPY_BYTES

\* C8: across the trace of one copy the counters of the log entries increase
\* by 1 in emission order (so they are pairwise distinct), each row's
\* rw_counter is the counter of the first entry it pushes, and the step after
\* the chain starts one past the last entry.
C8_Counters ==
  /\ \A k \in 1 .. (Len(rws) - 1) : rws[k + 1].rw_counter = rws[k].rw_counter + 1
  /\ Cardinality({rws[k].rw_counter : k \in 1 .. Len(rws)}) = Len(rws)
  /\ \A k \in ChainRows :
       /\ steps[k].rw_indices # <<>>
       /\ steps[k].rw_counter = rws[steps[k].rw_indices[1] + 1].rw_counter
  /\ pc \notin {"copy", "panic"} =>
       /\ ~IsCopy(steps[Len(steps)])
       /\ steps[Len(steps)].rw_counter =
            IF rws = <<>> THEN RW_COUNTER_START
            ELSE rws[Len(rws)].rw_counter + 1

C8_Witness ==
  /\ pc = "done"
  /\ ~args.from_tx
  /\ Cardinality(ChainRows) = 2
  /\ Len(rws) > 2 * MAX_COPY_BYTES
  /\ steps[2].rw_counter = rws[steps[2].rw_indices[1] + 1].rw_counter
  /\ steps[3].rw_counter = RW_COUNTER_START + Len(rws)

\* the byte at address a after the write entries of the log have been
\* applied in counter order to a memory that holds before at a
FinalByte(a, before) ==
  LET W == {k \in 1 .. Len(rws) : rws[k].is_write /\ rws[k].memory_address = a}
  IN IF W = {} THEN before
     ELSE rws[CHOOSE k \in W :
                \A j \in W : rws[j].rw_counter <= rws[k].rw_counter].byte

\* C9: after the writes of a chain copying L bytes have been applied in
\* counter order, the byte at dst_addr + i is, for every i < L, the byte of
\* the source buffer at src_addr + i when src_addr + i is before the bound of
\* the buffer, and 0 otherwise.
C9_RoundTrip ==
  pc = "done" =>
    \A i \in 0 .. (args.length - 1) :
      FinalByte(args.dst_addr + i, 256) =
        IF args.src_addr + i < buffer_addr_end_of(args)
        THEN args.buffer[args.src_addr + i - args.buffer_addr + 1]
        ELSE 0

\* a multi-row copy whose source ends inside the second row
C9_Witness ==
  /\ pc = "done"
  /\ Cardinality(ChainRows) >= 2
  /\ args.src_addr + args.length > buffer_addr_end_of(args)
  /\ args.src_addr + MAX_COPY_BYTES < buffer_addr_end_of(args)
  /\ FinalByte(args.dst_addr + MAX_COPY_BYTES, 256) =
       args.buffer[args.src_addr + MAX_COPY_BYTES - args.buffer_addr + 1]
  /\ FinalByte(args.dst_addr + MAX_COPY_BYTES, 256) # 0
  /\ FinalByte(args.dst_addr + args.length - 1, 256) = 0

\* C10: a row whose copied_size exceeds bytes_left does not satisfy the
\* constraint "Constrain num_bytes <= bytes_left" (lt * finished = 0).
C10_Rejected ==
  (pc = "row_done" /\ copied_size(cur) > cur.bytes_left) => ~verdict.num_bytes

Min(a, b) == IF a < b THEN a ELSE b

\* C11: in every row of a chain selectors[i] = 1 iff i < bytes_left, so the
\* active positions form a prefix, the copied count of the row is
\* min(bytes_left, MAX_COPY_BYTES), never more than MAX_COPY_BYTES, and every
\* row that is not the last copies exactly MAX_COPY_BYTES bytes; the count
\* assign_exec_step hands to the comparison gadget is the same.
C11_Selectors ==
  /\ \A k \in ChainRows :
       LET d == steps[k].extra_data
       IN /\ \A i \in Positions : d.selectors[i] = 1 <=> i < d.bytes_left
          /\ \A i \in Positions : d.selectors[i] \in {0, 1}
          /\ \A i \in Positions :
               (d.selectors[i] = 1 /\ i > 0) => d.selectors[i - 1] = 1
          /\ StepCopied(steps[k]) = Min(d.bytes_left, MAX_COPY_BYTES)
          /\ StepCopied(steps[k]) <= MAX_COPY_BYTES
          /\ (k < Len(steps) /\ IsCopy(steps[k + 1])) =>
               StepCopied(steps[k]) = MAX_COPY_BYTES
  /\ \A k \in 1 .. Len(rows) :
       IsCopy(rows[k]) =>
         /\ num_bytes(rows[k]) = Min(rows[k].bytes_left, MAX_COPY_BYTES)
         /\ rows[k].eq = 1 <=> rows[k].bytes_left <= MAX_COPY_BYTES

\* a chain with a full row followed by a partial last row, both assigned
C11_Witness ==
  /\ pc = "done"
  /\ Cardinality(ChainRows) = 2
  /\ StepCopied(steps[1]) = MAX_COPY_BYTES
  /\ steps[1].extra_data.bytes_left > MAX_COPY_BYTES
  /\ StepCopied(steps[2]) = steps[2].extra_data.bytes_left
  /\ StepCopied(steps[2]) < MAX_COPY_BYTES
  /\ steps[2].extra_data.selectors[StepCopied(steps[2])] = 0
  /\ num_bytes(rows[2]) = StepCopied(steps[2])

\* ---------------------------------------------------------------------
\* assign_exec_step on its own: the block, the transaction and the step are
\* its inputs, so the log slice of the step and the call data of the
\* transaction may be shorter than the row needs (a malformed trace)

\* the copy lengths and buffer lengths of the rows assigned on their own
AssignLengths == {1, 5, 45, MAX_COPY_BYTES + 1}
AssignBufLens == {2, 32, 96}

\* the lengths a sequence of n entries is cut to: whole, one short, one, none
CutLens(n) == {0, 1, n - 1, n} \cap (0 .. n)

\* the first row of a copy, its slice cut to t entries, the call data to c
InitAssign ==
  /\ \E src_addr \in SrcAddrs, dst_addr \in DstAddrs, n \in AssignBufLens, length \in AssignLengths, seed \in Seeds :
       \E a \in {test_ok_from_memory(src_addr, dst_addr, src_addr + n, length, seed), test_ok_from_tx(n, src_addr, dst_addr, length, seed)} :
         \E r \in {make_memory_copy_step(StepArgs(a, 0, RW_COUNTER_START, <<>>))} :
           \E t \in CutLens(Len(r.step.rw_indices)), c \in CutLens(Len(a.call_data)) :
             /\ ~r.panic
             /\ args = [a EXCEPT !.call_data = SubSeq(a.call_data, 1, c)]
             /\ steps = <<[r.step EXCEPT !.rw_indices = SubSeq(r.step.rw_indices, 1, t)]>>
             /\ rws = r.rws
             /\ rw_counter = RW_COUNTER_START + r.rw_offset
  /\ pc = "assign"
  /\ copied = 0
  /\ rows = <<>>
  /\ cur = NoRow
  /\ nxt = NoRow
  /\ verdict = NoRow

NextAssign == AssignExecStep

AssignSpec == InitAssign /\ [][NextAssign]_vars

\* the number of slice entries a row consumes: one per in-bound active read
\* from memory and one per active write
Consumed(d) ==
  (IF d.from_tx THEN 0 ELSE Cardinality(InBound(d))) + Cardinality(Active(d))

\* the slice of a step holds fewer entries than the row consumes
ShortSlice(st) == Len(st.rw_indices) < Consumed(st.extra_data)

\* C12: witness assignment never completes on a row whose slice of log
\* entries is shorter than the row consumes (one entry per in-bound active
\* read from memory plus one per active write), whether the row reads from
\* memory or from call data: a completed row has a slice long enough.
C12_ShortSliceAborts ==
  \A k \in 1 .. Len(rows) : IsCopy(rows[k]) => ~ShortSlice(steps[k])

\* the active in-bound positions of a row that lie beyond the call data
BeyondCallData(d, tx) ==
  {i \in InBound(d) : d.src_addr + i >= Len(tx.call_data)}

\* C13: for a row reading from call data, witness assignment aborts exactly
\* when some active position has src_addr + i < src_addr_end and
\* src_addr + i >= the length of the transaction's call data; a completed
\* row took every in-bound byte from inside the call data, and active
\* positions at or past src_addr_end get byte 0 and cause no abort.
C13_CallDataBound ==
  \A k \in 1 .. Len(steps) :
    LET d == steps[k].extra_data
        tx == TxOf(args)
    IN (IsCopy(steps[k]) /\ d.from_tx) =>
         /\ (pc = "abort" /\ Len(rows) = k - 1) => BeyondCallData(d, tx) # {}
         /\ Len(rows) >= k =>
              /\ BeyondCallData(d, tx) = {}
              /\ \A i \in InBound(d) :
                   /\ d.src_addr + i + 1 \in DOMAIN tx.call_data
                   /\ rows[k].bytes[i] = tx.call_data[d.src_addr + i + 1]
              /\ \A i \in OutOfBound(d) : rows[k].bytes[i] = 0

\* an aborted assignment of a call-data row that also has active positions
\* at or past src_addr_end
C13_Witness ==
  /\ pc = "abort"
  /\ rows = <<>>
  /\ steps[1].extra_data.from_tx
  /\ BeyondCallData(steps[1].extra_data, TxOf(args)) # {}
  /\ OutOfBound(steps[1].extra_data) # {}

\* C14: along every chain src_addr_end, from_tx and tx_id do not change from
\* a row to its successor: every generated step and every assigned row of
\* one copy carries the source bound, the source kind and the transaction id
\* of the first row, which are those of the copy, and the next-step
\* equalities of an unfinished row hold for these three cells.
C14_SameSource ==
  /\ \A k \in ChainRows :
       LET d == steps[k].extra_data
       IN /\ d.src_addr_end = steps[1].extra_data.src_addr_end
          /\ d.from_tx = steps[1].extra_data.from_tx
          /\ d.src_addr_end = buffer_addr_end_of(args)
          /\ d.from_tx = args.from_tx
  /\ \A k \in 1 .. Len(rows) :
       IsCopy(rows[k]) =>
         /\ rows[k].src_addr_end = rows[1].src_addr_end
         /\ rows[k].from_tx = rows[1].from_tx
         /\ rows[k].tx_id = rows[1].tx_id
         /\ rows[k].tx_id = args.tx_id
         /\ (rows[k].eq = 0 /\ k < Len(rows)) =>
              /\ IsCopy(rows[k + 1])
              /\ rows[k + 1].src_addr_end = rows[k].src_addr_end
              /\ rows[k + 1].from_tx = rows[k].from_tx
              /\ rows[k + 1].tx_id = rows[k].tx_id

\* a three-row chain from call data, assigned and accepted
C14_Witness ==
  /\ pc = "done"
  /\ verdict.ok
  /\ Cardinality(ChainRows) = 3
  /\ args.from_tx
  /\ rows[1].eq = 0
  /\ rows[2].eq = 0
  /\ rows[3].src_addr_end = rows[1].src_addr_end
  /\ rows[3].from_tx = 1
  /\ rows[3].tx_id = TX_ID

\* C15: a CopyToMemory row changes no shared step-state field but the
\* read/write counter: program counter, stack pointer, memory size and call
\* id are the same in every step of a chain and in the step that follows it
\* (another row or the closing STOP), in the generated steps and in the
\* assigned rows.
C15_FrameUnchanged ==
  /\ \A k \in ChainRows :
       /\ steps[k].program_counter = args.program_counter
       /\ steps[k].stack_pointer = args.stack_pointer
       /\ steps[k].memory_size = args.memory_size
       /\ k < Len(steps) =>
            /\ steps[k + 1].program_counter = steps[k].program_counter
            /\ steps[k + 1].stack_pointer = steps[k].stack_pointer
            /\ steps[k + 1].memory_size = steps[k].memory_size
  /\ \A k \in 1 .. Len(rows) :
       (IsCopy(rows[k]) /\ k < Len(rows)) =>
         /\ rows[k + 1].program_counter = rows[k].program_counter
         /\ rows[k + 1].stack_pointer = rows[k].stack_pointer
         /\ rows[k + 1].memory_size = rows[k].memory_size
         /\ rows[k + 1].call_id = rows[k].call_id
         /\ StepStateTransition(rows[k], rows[k + 1])

\* a two-row chain and its closing STOP step, all assigned, the counter
\* moved and the other step-state fields as in the first row
C15_Witness ==
  /\ pc = "done"
  /\ Len(rows) = 3
  /\ IsCopy(rows[2])
  /\ ~IsCopy(rows[3])
  /\ rows[3].rw_counter > rows[1].rw_counter
  /\ rows[3].program_counter = rows[1].program_counter
  /\ rows[3].stack_pointer = rows[1].stack_pointer
  /\ rows[3].memory_size = rows[1].memory_size
  /\ rows[3].call_id = rows[1].call_id

\* C16: witness assignment of a row reading from memory takes byte(i) of
\* every active in-bound position i from that position's own read entry of
\* the log: an entry with is_write = FALSE and address src_addr + i.
C16_OwnReadEntry ==
  \A k \in 1 .. Len(rows) :
    (IsCopy(rows[k]) /\ rows[k].from_tx = 0) =>
      \A i \in InBound(steps[k].extra_data) :
        /\ rows[k].byte_source[i] + 1 \in DOMAIN rws
        /\ ~rws[rows[k].byte_source[i] + 1].is_write
        /\ rws[rows[k].byte_source[i] + 1].memory_address = rows[k].src_addr + i

\* the write entries of the slice of step st for address addr
WriteEntries(st, addr) ==
  {j \in 1 .. Len(st.rw_indices) :
     /\ rws[st.rw_indices[j] + 1].is_write
     /\ rws[st.rw_indices[j] + 1].memory_address = addr}

\* C17: on every row built by make_memory_copy_steps witness assignment
\* completes without aborting, and the bytes it reconstructs agree with the
\* generator: for an active position i, bytes[i] is the byte of the one
\* write entry of the row's slice for dst_addr + i; for an inactive
\* position bytes[i] = 0.
C17_AssignAgrees ==
  /\ pc \notin {"abort", "panic"}
  /\ pc \in {"verify", "done"} => Len(rows) = Len(steps)
  /\ \A k \in 1 .. Len(rows) :
       IsCopy(rows[k]) =>
         LET st == steps[k]
         IN \A i \in Positions :
              IF rows[k].selectors[i] = 1
              THEN /\ Cardinality(WriteEntries(st, rows[k].dst_addr + i)) = 1
                   /\ \A j \in WriteEntries(st, rows[k].dst_addr + i) :
                        rws[st.rw_indices[j] + 1].byte = rows[k].bytes[i]
              ELSE rows[k].bytes[i] = 0

\* an assigned row reading from memory with in-bound, out-of-bound and
\* inactive positions, the in-bound bytes not all zero
C17_Witness ==
  /\ pc = "done"
  /\ ~args.from_tx
  /\ IsCopy(steps[1])
  /\ InBound(steps[1].extra_data) # {}
  /\ OutOfBound(steps[1].extra_data) # {}
  /\ Active(steps[1].extra_data) # Positions
  /\ \E i \in InBound(steps[1].extra_data) : rows[1].bytes[i] > 0
  /\ Cardinality(InBound(steps[1].extra_data)) > 2

\* C18: within a row every position i that has a source-read assertion has a
\* write assertion with the same byte, and source offset i is paired with
\* destination offset i: in the generated log each read entry at
\* src_addr + i is followed at once by the write entry at dst_addr + i with
\* the same byte, a call-data row writes call_data[src_addr + i] to
\* dst_addr + i, and the lookups of position i of an assigned row (memory
\* read or call-data lookup at src_addr + i, memory write at dst_addr + i)
\* carry one byte.
C18_SameByte ==
  /\ \A k \in ChainRows :
       LET st == steps[k]
           d == st.extra_data
       IN /\ \A j \in 1 .. Len(st.rw_indices) :
               LET e == rws[st.rw_indices[j] + 1]
               IN ~e.is_write =>
                    /\ j < Len(st.rw_indices)
                    /\ \E i \in InBound(d) :
                         /\ e.memory_address = d.src_addr + i
                         /\ rws[st.rw_indices[j + 1] + 1].is_write
                         /\ rws[st.rw_indices[j + 1] + 1].memory_address = d.dst_addr + i
                         /\ rws[st.rw_indices[j + 1] + 1].byte = e.byte
          /\ d.from_tx =>
               \A i \in InBound(d) :
                 /\ WriteEntries(st, d.dst_addr + i) # {}
                 /\ \A j \in WriteEntries(st, d.dst_addr + i) :
                      rws[st.rw_indices[j] + 1].byte = args.call_data[d.src_addr + i + 1]
  /\ \A k \in 1 .. Len(rows) :
       IsCopy(rows[k]) =>
         \A i \in Positions :
           LET pl == PositionLookups(rows[k], i, 0)
           IN \A a \in 1 .. Len(pl) :
                ~pl[a].is_write =>
                  /\ pl[a].address = rows[k].src_addr + i
                  /\ \E b \in 1 .. Len(pl) :
                       /\ pl[b].is_write
                       /\ pl[b].address = rows[k].dst_addr + i
                       /\ pl[b].byte = pl[a].byte

\* an accepted copy from memory to a different address whose first row has
\* in-bound positions with distinct non-zero bytes
C18_Witness ==
  /\ pc = "done"
  /\ verdict.ok
  /\ ~args.from_tx
  /\ IsCopy(rows[1])
  /\ rows[1].dst_addr # rows[1].src_addr
  /\ {0, 1} \subseteq InBound(steps[1].extra_data)
  /\ rows[1].bytes[0] > 0
  /\ rows[1].bytes[1] # rows[1].bytes[0]
  /\ Len(PositionLookups(rows[1], 1, 0)) = 2

\* the earlier write entries of the log to the address of entry j
EarlierWrites(j) ==
  {m \in 1 .. (j - 1) :
     rws[m].is_write /\ rws[m].memory_address = rws[j].memory_address}

\* C19: in the log built for a copy from memory every read entry agrees
\* with the log before it: its byte is the byte of the latest earlier write
\* entry to the same address when there is one, and the byte of the source
\* buffer at that address otherwise.
C19_ReadsConsistent ==
  ~args.from_tx =>
    \A j \in 1 .. Len(rws) :
      ~rws[j].is_write =>
        LET prev == EarlierWrites(j)
        IN IF prev = {}
           THEN rws[j].byte = args.buffer[rws[j].memory_address - args.buffer_addr + 1]
           ELSE rws[j].byte = rws[CHOOSE m \in prev : \A o \in prev : o <= m].byte
====
